---- MODULE Spec2Model ----
(***************************************************************************)
(* The classroom chat tool: the session ledger and the classroom registry  *)
(* kept in localStorage (storageService.ts), the login handlers and the    *)
(* teacher dashboard that call them, the config polling of App.tsx, the    *)
(* chat (handleSend of ChatArea.tsx, split at its await), two instances    *)
(* whose saveSession calls interleave, and one student id used under two   *)
(* classroom codes.                                                        *)
(*                                                                         *)
(* JavaScript strings that the code inspects character by character        *)
(* (names, class codes) are sequences of one-character strings; strings    *)
(* that are only compared are TLA+ strings.                                *)
(***************************************************************************)
EXTENDS Integers, Sequences, FiniteSets, TLC

VARIABLES
    sessionsStore,    \* localStorage['classroom_ai_sessions'], parsed: a sequence of ChatSession
    classroomsStore,  \* localStorage['classroom_ai_classrooms'], parsed: a sequence of ClassroomConfig
    now,              \* the last value Date.now() returned
    user,             \* App state `user` (Null when logged out)
    classroomConfig,  \* App state `classroomConfig` (Null when absent)
    dash,             \* TeacherDashboard state {classroom, instruction, apiKey} (Null when not mounted)
    sessionStorage,   \* this tab's sessionStorage: {user, classcode} (Null when empty)
    triggers,         \* the checkConfig closures registered on 'focus' and with setInterval,
                      \* and the closure the cleanup of the polling effect will remove
    sessions,         \* App state `sessions`: the student's in-memory session list
    currentSessionId, \* App state `currentSessionId` (NoId when none)
    chat,             \* ChatArea state {isLoading, selectedModel} (Null when not mounted)
    pending,          \* the handleSend calls suspended at their await
    reads,            \* per client instance, the saveSession call that has read the
                      \* collection and not yet written it (Null when there is none)
    deletedIds,       \* history: the ids handleDeleteSession removed and no create made again
    last,             \* history: the operation that ran last, its arguments and its result
    created,          \* history: the <<id, userId>> pairs createSession has made
    firstCode,        \* history: lower-cased teacher name -> the code its first login created
    edits             \* number of operations taken outside the plain fill by FillUser

vars == <<sessionsStore, classroomsStore, now, user, classroomConfig, dash,
          sessionStorage, triggers, sessions, currentSessionId, chat, pending,
          reads, deletedIds, last, created, firstCode, edits>>

-----------------------------------------------------------------------------
(* Bounds of the exploration *)

MaxClock == 22        \* Date.now() ranges over 0..MaxClock
MaxEdits == 1         \* operations other than FillUser's plain createSession
MaxMsgs == 1          \* messages per session in the ledger specification
MaxRegistryClock == 1 \* Date.now() ranges over 0..MaxRegistryClock in the registry specification
MaxChatEdits == 2     \* chat operations other than a plain new chat
MaxPending == 2       \* handleSend calls suspended at a time
MaxFillEdits == 0     \* chat operations a run may have taken when it fills past one session
MaxLiveSessions == 1  \* sessions of the student in the polling-and-chat specification
MaxRaceReads == 2     \* saveSession calls taken in two steps in the two-instance specification

(* Program constants *)

RetentionCap == 20

-----------------------------------------------------------------------------
(* Values *)

Null == [null |-> TRUE]              \* JavaScript null
Undefined == <<"undefined">>         \* an absent optional string (no one-character string)

NoId == ""                           \* a null session id: tested only for truthiness
                                     \* and against ids, which are never empty

NoOp == [op |-> "none"]

Users == {<<"4", "2">>, <<"7">>}   \* user ids, as typed by students
FillUser == <<"4", "2">>

GEMINI_PRO == "gemini-3-pro-preview"
GEMINI_FLASH == "gemini-2.5-flash"
GEMINI_IMAGE == "gemini-2.5-flash-image"

DefaultInstruction == "You are a helpful and polite teaching assistant."

Instances == {"tab1", "tab2"}        \* client instances that share one localStorage

-----------------------------------------------------------------------------
(* Strings as character sequences *)

UpperChar(c) ==
    CASE c = "a" -> "A"
      [] c = "b" -> "B"
      [] c = "c" -> "C"
      [] OTHER -> c

LowerChar(c) ==
    CASE c = "A" -> "a"
      [] c = "B" -> "b"
      [] c = "C" -> "c"
      [] OTHER -> c

ToUpperCase(str) == [i \in 1..Len(str) |-> UpperChar(str[i])]

ToLowerCase(str) == [i \in 1..Len(str) |-> LowerChar(str[i])]

RECURSIVE TrimStart(_)
TrimStart(str) ==
    IF str # <<>> /\ Head(str) = " " THEN TrimStart(Tail(str)) ELSE str

RECURSIVE TrimEnd(_)
TrimEnd(str) ==
    IF str # <<>> /\ str[Len(str)] = " "
    THEN TrimEnd(SubSeq(str, 1, Len(str) - 1))
    ELSE str

Trim(str) == TrimEnd(TrimStart(str))

-----------------------------------------------------------------------------
(* Array helpers *)

\* Array.prototype.filter is SelectSeq.

\* Array.prototype.findIndex over the outcomes of the test, element by element:
\* 1-based, 0 when nothing matches (JavaScript's -1)
FindIndex(matches) ==
    IF \E i \in 1..Len(matches) : matches[i]
    THEN CHOOSE i \in 1..Len(matches) : matches[i] /\ \A j \in 1..(i - 1) : ~matches[j]
    ELSE 0

\* Array.prototype.find: the first element whose test succeeds, Null for undefined
Find(seq, matches) ==
    LET i == FindIndex(matches) IN IF i = 0 THEN Null ELSE seq[i]

\* insert x into a sequence sorted by createdAt descending, behind its equals
RECURSIVE InsertDesc(_, _)
InsertDesc(sorted, x) ==
    IF sorted = <<>> THEN <<x>>
    ELSE IF Head(sorted).createdAt >= x.createdAt
         THEN <<Head(sorted)>> \o InsertDesc(Tail(sorted), x)
         ELSE <<x>> \o sorted

\* .sort((a, b) => b.createdAt - a.createdAt): a stable sort, newest first
RECURSIVE SortDesc(_)
SortDesc(seq) ==
    IF seq = <<>> THEN <<>>
    ELSE InsertDesc(SortDesc(SubSeq(seq, 1, Len(seq) - 1)), seq[Len(seq)])

-----------------------------------------------------------------------------
(* Session ledger: storageService.ts *)

getSessions(all, userId) ==
    SortDesc(SelectSeq(all, LAMBDA s : s.userId = userId))

getSessionsByClass(all, classCode) ==
    SortDesc(SelectSeq(all, LAMBDA s : s.classCode = classCode))

\* saveSession with the cap test off by one: `userSessions.length > 21`, `slice(0, 21)`
saveSessionResult_CapOffByOne(all, session) ==
    LET removed == SelectSeq(all, LAMBDA s : s.id # session.id)
        pushed == Append(removed, session)
        userSessions == SortDesc(SelectSeq(pushed, LAMBDA s : s.userId = session.userId))
    IN  IF Len(userSessions) > RetentionCap + 1
        THEN LET sessionsKeep == SubSeq(userSessions, 1, RetentionCap + 1)
                 sessionIdsToKeep == {sessionsKeep[i].id : i \in 1..Len(sessionsKeep)}
             IN  SelectSeq(pushed, LAMBDA s : s.userId # session.userId
                                           \/ s.id \in sessionIdsToKeep)
        ELSE pushed

\* saveSession keeping the wrong end of the sorted list: the 20 oldest
saveSessionResult_KeepOldest(all, session) ==
    LET removed == SelectSeq(all, LAMBDA s : s.id # session.id)
        pushed == Append(removed, session)
        userSessions == SortDesc(SelectSeq(pushed, LAMBDA s : s.userId = session.userId))
    IN  IF Len(userSessions) > RetentionCap
        THEN LET sessionsKeep == SubSeq(userSessions, Len(userSessions) - RetentionCap + 1,
                                        Len(userSessions))
                 sessionIdsToKeep == {sessionsKeep[i].id : i \in 1..Len(sessionsKeep)}
             IN  SelectSeq(pushed, LAMBDA s : s.userId # session.userId
                                           \/ s.id \in sessionIdsToKeep)
        ELSE pushed

\* saveSession without the removal of the stored version of the session
saveSessionResult_NoRemove(all, session) ==
    LET pushed == Append(all, session)
        userSessions == SortDesc(SelectSeq(pushed, LAMBDA s : s.userId = session.userId))
    IN  IF Len(userSessions) > RetentionCap
        THEN LET sessionsKeep == SubSeq(userSessions, 1, RetentionCap)
                 sessionIdsToKeep == {sessionsKeep[i].id : i \in 1..Len(sessionsKeep)}
             IN  SelectSeq(pushed, LAMBDA s : s.userId # session.userId
                                           \/ s.id \in sessionIdsToKeep)
        ELSE pushed

\* the collection saveSession writes, from the collection it read
saveSessionResult(all, session) ==
    LET removed == SelectSeq(all, LAMBDA s : s.id # session.id)
        pushed == Append(removed, session)
        userSessions == SortDesc(SelectSeq(pushed, LAMBDA s : s.userId = session.userId))
    IN  IF Len(userSessions) > RetentionCap
        THEN LET sessionsKeep == SubSeq(userSessions, 1, RetentionCap)
                 sessionIdsToKeep == {sessionsKeep[i].id : i \in 1..Len(sessionsKeep)}
             IN  SelectSeq(pushed, LAMBDA s : s.userId # session.userId
                                           \/ s.id \in sessionIdsToKeep)
        ELSE pushed

\* deleteSession by position: splice(findIndex(...), 1), where a findIndex of -1
\* makes splice remove the last element
deleteSessionResult_Splice(all, sessionId) ==
    LET index == FindIndex([i \in 1..Len(all) |-> all[i].id = sessionId])
        at == IF index = 0 THEN Len(all) ELSE index
    IN  SubSeq(all, 1, at - 1) \o SubSeq(all, at + 1, Len(all))

\* the collection deleteSession writes
deleteSessionResult(all, sessionId) ==
    SelectSeq(all, LAMBDA s : s.id # sessionId)

\* the record createSession builds: two reads of the clock, t1 for the id, t2 for createdAt
newSession(userId, modelId, classCode, t1, t2) ==
    [id |-> ToString(t1), userId |-> userId, title |-> "New Chat", messages |-> <<>>,
     createdAt |-> t2, modelId |-> modelId, classCode |-> classCode]

Ids(all) == {all[i].id : i \in 1..Len(all)}

Elems(seq) == {seq[i] : i \in 1..Len(seq)}

CountOf(all, userId) == Len(SelectSeq(all, LAMBDA s : s.userId = userId))

\* how many sessions the retention cap removes when `session` is saved
Evicted(all, session) ==
    Len(SelectSeq(all, LAMBDA s : s.id # session.id)) + 1
        - Len(saveSessionResult(all, session))

-----------------------------------------------------------------------------
(* Inputs of the ledger operations *)

ClassOf(userId) == IF userId = FillUser THEN <<"A", "1">> ELSE Undefined

\* ids a caller may pass: the id stored first, the id stored last, and "1": not
\* yet created, stored, or evicted, as the run goes
IdInputs ==
    {"1"}
    \cup (IF sessionsStore = <<>> THEN {}
          ELSE {sessionsStore[1].id, sessionsStore[Len(sessionsStore)].id})

\* createdAt values a caller may pass: older than everything, equal to the
\* createdAt stored first, the present
TimeInputs ==
    {0, now} \cup (IF sessionsStore = <<>> THEN {} ELSE {sessionsStore[1].createdAt})

Message(t) == [id |-> ToString(t), role |-> "user", text |-> "hi", timestamp |-> t]

\* sessions a caller may pass to saveSession: a stored session with a message
\* appended or its model changed (what ChatArea saves), and sessions built elsewhere
UpdateInputs ==
    {[s EXCEPT !.messages = Append(@, Message(now))] :
        s \in {x \in Elems(sessionsStore) :
                 /\ x.id \in IdInputs
                 /\ Len(x.messages) < MaxMsgs}}
    \cup {[s EXCEPT !.modelId = GEMINI_PRO] :
        s \in {x \in Elems(sessionsStore) : x.id \in IdInputs /\ x.modelId # GEMINI_PRO}}

ForeignInputs ==
    {[id |-> i, userId |-> u, title |-> "New Chat", messages |-> <<>>,
      createdAt |-> t, modelId |-> GEMINI_FLASH, classCode |-> Undefined] :
        i \in IdInputs, u \in Users, t \in TimeInputs}

SessionInputs == UpdateInputs \cup ForeignInputs

-----------------------------------------------------------------------------
(* Ledger actions *)

RegistryUnchanged ==
    UNCHANGED <<classroomsStore, user, classroomConfig, dash, sessionStorage, triggers,
                sessions, currentSessionId, chat, pending, reads, deletedIds, firstCode>>

\* the plain fill: FillUser creates a session, the clock read once
PlainCreate(userId, t1, t2) == userId = FillUser /\ t2 = t1

\* the other operations are explored where the cap can matter: while the store is
\* nearly empty and once FillUser is within one session of the cap
NearEdge ==
    \/ Len(sessionsStore) <= 1
    \/ CountOf(sessionsStore, FillUser) >= RetentionCap - 1

Charge(free) ==
    IF free THEN edits' = edits
    ELSE NearEdge /\ edits < MaxEdits /\ edits' = edits + 1

createSession(userId, modelId, classCode, t1, t2) ==
    LET s == newSession(userId, modelId, classCode, t1, t2)
        res == saveSessionResult(sessionsStore, s)
    IN  /\ t1 \in {now, now + 1}
        /\ t2 \in {t1, t1 + 1}
        /\ t2 <= MaxClock
        /\ Charge(PlainCreate(userId, t1, t2))
        /\ sessionsStore' = res
        /\ now' = t2
        /\ created' = created \cup {<<s.id, userId>>}
        /\ last' = [op |-> "createSession", session |-> s,
                    evicted |-> Evicted(sessionsStore, s)]
        /\ RegistryUnchanged

saveSession(session) ==
    LET res == saveSessionResult(sessionsStore, session)
    IN  /\ Charge(FALSE)
        /\ sessionsStore' = res
        /\ last' = [op |-> "saveSession", session |-> session,
                    evicted |-> Evicted(sessionsStore, session)]
        /\ UNCHANGED <<now, created>>
        /\ RegistryUnchanged

deleteSession(sessionId) ==
    /\ Charge(FALSE)
    /\ sessionsStore' = deleteSessionResult(sessionsStore, sessionId)
    /\ last' = [op |-> "deleteSession", sessionId |-> sessionId,
                matched |-> sessionId \in Ids(sessionsStore)]
    /\ UNCHANGED <<now, created>>
    /\ RegistryUnchanged

-----------------------------------------------------------------------------
(* Specification of the session ledger *)

Init ==
    /\ sessionsStore = <<>>
    /\ classroomsStore = <<>>
    /\ now = 0
    /\ user = Null
    /\ classroomConfig = Null
    /\ dash = Null
    /\ sessionStorage = Null
    /\ triggers = [focus |-> <<>>, interval |-> <<>>, cleanup |-> Null]
    /\ sessions = <<>>
    /\ currentSessionId = NoId
    /\ chat = Null
    /\ pending = {}
    /\ reads = [i \in Instances |-> Null]
    /\ deletedIds = {}
    /\ last = NoOp
    /\ created = {}
    /\ firstCode = {}
    /\ edits = 0

Next ==
    \/ \E u \in Users, t1 \in {now, now + 1}, t2 \in {now, now + 1, now + 2} :
          createSession(u, GEMINI_FLASH, ClassOf(u), t1, t2)
    \/ \E s \in SessionInputs : saveSession(s)
    \/ \E id \in IdInputs : deleteSession(id)

Spec == Init /\ [][Next]_vars

-----------------------------------------------------------------------------
(* Classroom registry: storageService.ts *)

\* Math.random().toString(36) is "0." followed by base-36 digits; `digits` is
\* that digit string
generateCode(digits) ==
    ToUpperCase(SubSeq(digits, 1, IF Len(digits) < 6 THEN Len(digits) ELSE 6))

getAllClassrooms(stored) == stored

\* getClassroom folding case: c.code.toLowerCase() === code.toLowerCase()
getClassroom_IgnoreCase(stored, code) ==
    LET classrooms == getAllClassrooms(stored)
    IN  Find(classrooms, [i \in 1..Len(classrooms) |->
                             ToLowerCase(classrooms[i].code) = ToLowerCase(code)])

\* getClassroom falling back on the first stored classroom: `find(...) || classrooms[0]`
getClassroom_OrFirst(stored, code) ==
    LET classrooms == getAllClassrooms(stored)
        found == Find(classrooms, [i \in 1..Len(classrooms) |-> classrooms[i].code = code])
    IN  IF found = Null /\ classrooms # <<>> THEN classrooms[1] ELSE found

getClassroom(stored, code) ==
    LET classrooms == getAllClassrooms(stored)
    IN  Find(classrooms, [i \in 1..Len(classrooms) |-> classrooms[i].code = code])

\* saveClassroom testing `index > 0`: a match at the first position is not replaced
saveClassroomResult_SkipFirst(stored, config) ==
    LET classrooms == getAllClassrooms(stored)
        index == FindIndex([i \in 1..Len(classrooms) |-> classrooms[i].code = config.code])
    IN  IF index > 1
        THEN [classrooms EXCEPT ![index] = config]
        ELSE Append(classrooms, config)

\* saveClassroom that always appends
saveClassroomResult_AlwaysPush(stored, config) ==
    Append(getAllClassrooms(stored), config)

\* the collection saveClassroom writes
saveClassroomResult(stored, config) ==
    LET classrooms == getAllClassrooms(stored)
        index == FindIndex([i \in 1..Len(classrooms) |-> classrooms[i].code = config.code])
    IN  IF index >= 1
        THEN [classrooms EXCEPT ![index] = config]
        ELSE Append(classrooms, config)

\* the record createClassroom builds and saves
newClassroom(teacherName, digits, t) ==
    [code |-> generateCode(digits), teacherName |-> teacherName, apiKey |-> "",
     systemInstruction |-> DefaultInstruction, createdAt |-> t]

-----------------------------------------------------------------------------
(* Inputs of the registry operations *)

\* what Math.random() may yield: two draws that agree on their first six
\* digits, and a short draw
RandomDigits ==
    { <<"a", "1", "b", "2", "c", "3">>,
      <<"a", "1", "b", "2", "c", "3", "a">>,
      <<"b", "2">> }

\* what a teacher may type as a name
NameInputs ==
    { <<"A", "b">>, <<"a", "B", " ">>, <<"c">>, <<" ">> }

\* what a student may type as a class code and as an id
CodeInputs ==
    { <<"a", "1", "b", "2", "c", "3">>, <<" ", "B", "2">>, <<"c", "c">>, <<" ">> }

StudentIdInputs == { <<"7", " ">>, <<" ">> }

ApiKeyInputs == {"", "k1"}

InstructionInputs == {DefaultInstruction, "i1"}

-----------------------------------------------------------------------------
(* App, Login and TeacherDashboard *)

LedgerUnchanged == UNCHANGED <<sessionsStore, reads, deletedIds, created, edits>>

ChatUnchanged == UNCHANGED <<sessions, currentSessionId, chat, pending>>

\* getCurrentSession: the first in-memory session with the current id
getCurrentSession(list, id) ==
    IF id = NoId THEN Null
    ELSE Find(list, [i \in 1..Len(list) |-> list[i].id = id])

CurrentSession == getCurrentSession(sessions, currentSessionId)

\* session.modelId || ModelType.GEMINI_PRO
ModelOrDefault(session) == IF session.modelId = "" THEN GEMINI_PRO ELSE session.modelId

\* the ChatArea state after App renders with the session list and current id
\* given: ChatArea is mounted (with fresh state) when a current session appears,
\* unmounted when there is none, and, while it stays mounted, its effect on
\* [session.messages, session.id] resets selectedModel
ChatAfterRender(prevChat, prevSession, list, id) ==
    LET session == getCurrentSession(list, id)
    IN  IF session = Null THEN Null
        ELSE IF prevChat = Null
             THEN [isLoading |-> FALSE, selectedModel |-> ModelOrDefault(session)]
        ELSE IF \/ prevSession = Null
                \/ prevSession.id # session.id
                \/ prevSession.messages # session.messages
             THEN [prevChat EXCEPT !.selectedModel = ModelOrDefault(session)]
        ELSE prevChat

\* App renders after a handler set `sessions` to list and `currentSessionId` to
\* id, ch being the ChatArea state the handler left; the suspended handleSend
\* calls of a ChatArea that is unmounted no longer reach a mounted component
Render(list, id, ch, pend) ==
    /\ sessions' = list
    /\ currentSessionId' = id
    /\ chat' = ChatAfterRender(ch, CurrentSession, list, id)
    /\ pending' = IF ChatAfterRender(ch, CurrentSession, list, id) = Null
                  THEN {[p EXCEPT !.alive = FALSE] : p \in pend}
                  ELSE pend

\* the effect of App that loads the sessions when `user` changes
LoadSessions(newUser) ==
    IF newUser # Null /\ newUser.role = "STUDENT"
    THEN LET userSessions == getSessions(sessionsStore, newUser.id)
         IN  Render(userSessions,
                    IF userSessions # <<>> /\ currentSessionId = NoId
                    THEN userSessions[1].id ELSE currentSessionId,
                    chat, pending)
    ELSE ChatUnchanged

\* what handleLogin leaves in sessionStorage
handleLoginStorage(newUser, config) == [user |-> newUser, classcode |-> config.code]

\* a sequence without the first occurrence of x
RemoveFirst(seq, x) ==
    LET index == FindIndex([i \in 1..Len(seq) |-> seq[i] = x])
    IN  IF index = 0 THEN seq
        ELSE SubSeq(seq, 1, index - 1) \o SubSeq(seq, index + 1, Len(seq))

\* the polling effect re-run without the cleanup its previous run returned
pollEffect_NoCleanup(tr, u, config) ==
    IF u # Null /\ config # Null
    THEN [focus |-> Append(tr.focus, config),
          interval |-> Append(tr.interval, config),
          cleanup |-> config]
    ELSE tr

\* the polling effect, re-run after a render in which user or classroomConfig
\* changed: first the cleanup its previous run returned, then its body. A
\* checkConfig closure is the classroomConfig it captured. A state update is
\* rendered, and its effects are run, before the next event is handled.
pollEffect(tr, u, config) ==
    LET cleaned == IF tr.cleanup = Null THEN tr
                   ELSE [focus |-> RemoveFirst(tr.focus, tr.cleanup),
                         interval |-> RemoveFirst(tr.interval, tr.cleanup),
                         cleanup |-> Null]
    IN  IF u # Null /\ config # Null
        THEN [focus |-> Append(cleaned.focus, config),
              interval |-> Append(cleaned.interval, config),
              cleanup |-> config]
        ELSE cleaned

\* TeacherDashboard as mounted with initialClassroom, its mount effect run
mountDashboard(stored, initialClassroom) ==
    LET current == getClassroom(stored, initialClassroom.code)
    IN  [classroom |-> IF current # Null THEN current ELSE initialClassroom,
         instruction |-> initialClassroom.systemInstruction,
         apiKey |-> initialClassroom.apiKey]

handleStudentLogin(studentId, typedCode) ==
    LET classCode == ToUpperCase(typedCode)      \* the field's onChange
        classroom == getClassroom(classroomsStore, ToUpperCase(Trim(classCode)))
        blank == Trim(studentId) = <<>> \/ Trim(classCode) = <<>>
        ok == ~blank /\ classroom # Null
    IN  /\ user = Null
        /\ last' = [op |-> "studentLogin", studentId |-> studentId, typedCode |-> typedCode,
                    ok |-> ok,
                    error |-> IF blank THEN "Please enter both your Student ID and Class Code."
                              ELSE IF classroom = Null THEN "Invalid Class Code."
                              ELSE ""]
        /\ IF ok
           THEN /\ user' = [id |-> Trim(studentId), role |-> "STUDENT",
                            name |-> <<"Student ">> \o studentId, classCode |-> classroom.code]
                /\ classroomConfig' = classroom
                /\ sessionStorage' = handleLoginStorage(user', classroom)
                /\ triggers' = pollEffect(triggers, user', classroom)
                /\ LoadSessions(user')
           ELSE /\ UNCHANGED <<user, classroomConfig, sessionStorage, triggers>>
                /\ ChatUnchanged
        /\ UNCHANGED <<classroomsStore, now, dash, firstCode>>
        /\ LedgerUnchanged

handleTeacherLogin(teacherName, digits, t) ==
    LET name == Trim(teacherName)
        allClassrooms == getAllClassrooms(classroomsStore)
        found == Find(allClassrooms,
                      [i \in 1..Len(allClassrooms) |->
                          ToLowerCase(allClassrooms[i].teacherName) = ToLowerCase(name)])
        fresh == newClassroom(name, digits, t)
        classroom == IF found = Null THEN fresh ELSE found
        stored == IF found = Null THEN saveClassroomResult(classroomsStore, fresh)
                  ELSE classroomsStore
        known == \E p \in firstCode : p[1] = ToLowerCase(name)
    IN  /\ user = Null
        /\ t \in {now, now + 1}
        /\ t <= MaxRegistryClock
        /\ IF name = <<>>
           THEN /\ last' = [op |-> "teacherLogin", teacherName |-> teacherName, ok |-> FALSE,
                            error |-> "Please enter your name."]
                /\ UNCHANGED <<classroomsStore, now, user, classroomConfig, dash,
                               sessionStorage, triggers, firstCode>>
                /\ ChatUnchanged
           ELSE /\ classroomsStore' = stored
                /\ now' = IF found = Null THEN t ELSE now
                /\ user' = [id |-> <<"teacher-">> \o classroom.code, role |-> "TEACHER",
                            name |-> teacherName, classCode |-> classroom.code]
                /\ classroomConfig' = classroom
                /\ sessionStorage' = handleLoginStorage(user', classroom)
                /\ triggers' = pollEffect(triggers, user', classroom)
                /\ dash' = mountDashboard(stored, classroom)
                /\ LoadSessions(user')
                /\ firstCode' = IF found = Null /\ ~known
                                THEN firstCode \cup {<<ToLowerCase(name), classroom.code>>}
                                ELSE firstCode
                /\ last' = [op |-> "teacherLogin", teacherName |-> teacherName, ok |-> TRUE,
                            code |-> classroom.code,
                            createdNew |-> found = Null,
                            first |-> found = Null /\ ~known,
                            saved |-> IF found = Null THEN fresh ELSE Null,
                            replaced |-> found = Null
                                         /\ getClassroom(classroomsStore, fresh.code) # Null]
        /\ LedgerUnchanged

setInstruction(value) ==
    /\ dash # Null
    /\ dash.instruction # value
    /\ dash' = [dash EXCEPT !.instruction = value]
    /\ last' = [op |-> "setInstruction"]
    /\ UNCHANGED <<classroomsStore, now, user, classroomConfig, sessionStorage, triggers,
                   firstCode>>
    /\ ChatUnchanged
    /\ LedgerUnchanged

setApiKey(value) ==
    /\ dash # Null
    /\ dash.apiKey # value
    /\ dash' = [dash EXCEPT !.apiKey = value]
    /\ last' = [op |-> "setApiKey"]
    /\ UNCHANGED <<classroomsStore, now, user, classroomConfig, sessionStorage, triggers,
                   firstCode>>
    /\ ChatUnchanged
    /\ LedgerUnchanged

handleSave ==
    LET updatedClassroom == [dash.classroom EXCEPT !.systemInstruction = dash.instruction,
                                                   !.apiKey = dash.apiKey]
    IN  /\ dash # Null
        /\ classroomsStore' = saveClassroomResult(classroomsStore, updatedClassroom)
        /\ dash' = [dash EXCEPT !.classroom = updatedClassroom]
        /\ last' = [op |-> "handleSave", saved |-> updatedClassroom,
                    replaced |-> getClassroom(classroomsStore, updatedClassroom.code) # Null]
        /\ UNCHANGED <<now, user, classroomConfig, sessionStorage, triggers, firstCode>>
        /\ ChatUnchanged
        /\ LedgerUnchanged

handleLogout ==
    /\ user # Null
    /\ user' = Null
    /\ classroomConfig' = Null
    /\ dash' = Null
    /\ sessionStorage' = Null
    /\ triggers' = pollEffect(triggers, Null, Null)
    /\ Render(<<>>, NoId, chat, pending)
    /\ last' = [op |-> "handleLogout"]
    /\ UNCHANGED <<classroomsStore, now, firstCode>>
    /\ LedgerUnchanged

NextRegistry ==
    \/ \E n \in NameInputs, d \in RandomDigits, t \in {now, now + 1} :
          handleTeacherLogin(n, d, t)
    \/ \E i \in StudentIdInputs, c \in CodeInputs : handleStudentLogin(i, c)
    \/ \E v \in InstructionInputs : setInstruction(v)
    \/ \E v \in ApiKeyInputs : setApiKey(v)
    \/ handleSave
    \/ handleLogout

SpecRegistry == Init /\ [][NextRegistry]_vars

-----------------------------------------------------------------------------
(* Config polling and restore: App.tsx *)

NoTriggers == [focus |-> <<>>, interval |-> <<>>, cleanup |-> Null]

\* checkConfig merging the two compared fields into the cached object
checkConfigResult_Merge(stored, cached) ==
    LET latest == getClassroom(stored, cached.code)
    IN  IF latest # Null /\ (latest.apiKey # cached.apiKey
                             \/ latest.systemInstruction # cached.systemInstruction)
        THEN [cached EXCEPT !.apiKey = latest.apiKey,
                            !.systemInstruction = latest.systemInstruction]
        ELSE cached

\* checkConfig comparing the apiKey only
checkConfigResult_OnlyApiKey(stored, cached) ==
    LET latest == getClassroom(stored, cached.code)
    IN  IF latest # Null /\ latest.apiKey # cached.apiKey THEN latest ELSE cached

\* checkConfig reading the first stored classroom instead of the one with the
\* cached code
checkConfigResult_FirstStored(stored, cached) ==
    LET latest == IF stored = <<>> THEN Null ELSE getAllClassrooms(stored)[1]
    IN  IF latest # Null /\ (latest.apiKey # cached.apiKey
                             \/ latest.systemInstruction # cached.systemInstruction)
        THEN latest
        ELSE cached

\* the classroomConfig a run of checkConfig leaves, `cached` being the
\* classroomConfig its closure captured
checkConfigResult(stored, cached) ==
    LET latest == getClassroom(stored, cached.code)
    IN  IF latest # Null /\ (latest.apiKey # cached.apiKey
                             \/ latest.systemInstruction # cached.systemInstruction)
        THEN latest
        ELSE cached

\* a registered checkConfig runs: the window gained focus, or the interval fired
checkConfig(trigger, i) ==
    LET registered == IF trigger = "focus" THEN triggers.focus ELSE triggers.interval
        cached == registered[i]
        result == checkConfigResult(classroomsStore, cached)
    IN  /\ i \in 1..Len(registered)
        /\ IF result # cached
           THEN /\ classroomConfig' = result
                /\ triggers' = pollEffect(triggers, user, result)
           ELSE UNCHANGED <<classroomConfig, triggers>>
        /\ last' = [op |-> "checkConfig", trigger |-> trigger, cached |-> cached,
                    persisted |-> getClassroom(classroomsStore, cached.code),
                    loggedIn |-> user # Null]
        /\ UNCHANGED <<classroomsStore, now, user, dash, sessionStorage, firstCode>>
        /\ ChatUnchanged
        /\ LedgerUnchanged

\* the page is loaded again in this tab: App mounts with its initial state, no
\* listener or timer of the page before survives, and the restore effect runs
reload ==
    LET parsedUser == IF sessionStorage = Null THEN Null ELSE sessionStorage.user
        codeToLoad == IF sessionStorage = Null THEN <<>>
                      ELSE IF sessionStorage.classcode # <<>> THEN sessionStorage.classcode
                      ELSE parsedUser.classCode
        config == IF parsedUser # Null /\ codeToLoad # <<>>
                  THEN getClassroom(classroomsStore, codeToLoad)
                  ELSE Null
    IN  /\ user' = parsedUser
        /\ classroomConfig' = config
        /\ triggers' = pollEffect(NoTriggers, parsedUser, config)
        /\ dash' = IF parsedUser # Null /\ config # Null /\ parsedUser.role = "TEACHER"
                   THEN mountDashboard(classroomsStore, config)
                   ELSE Null
        /\ IF parsedUser # Null /\ parsedUser.role = "STUDENT"
           THEN LET userSessions == getSessions(sessionsStore, parsedUser.id)
                IN  /\ sessions' = userSessions
                    /\ currentSessionId' = IF userSessions # <<>> THEN userSessions[1].id
                                           ELSE NoId
                    /\ chat' = ChatAfterRender(Null, Null, userSessions,
                                               IF userSessions # <<>> THEN userSessions[1].id
                                               ELSE NoId)
           ELSE /\ sessions' = <<>>
                /\ currentSessionId' = NoId
                /\ chat' = Null
        /\ pending' = {}
        /\ last' = [op |-> "reload"]
        /\ UNCHANGED <<classroomsStore, now, sessionStorage, firstCode>>
        /\ LedgerUnchanged

\* another running instance of the app writes a classroom record (its
\* createClassroom, or its dashboard's handleSave)
saveClassroom(config) ==
    /\ classroomsStore' = saveClassroomResult(classroomsStore, config)
    /\ last' = [op |-> "saveClassroom", saved |-> config,
                replaced |-> getClassroom(classroomsStore, config.code) # Null]
    /\ UNCHANGED <<now, user, classroomConfig, dash, sessionStorage, triggers, firstCode>>
    /\ ChatUnchanged
    /\ LedgerUnchanged

\* records other instances write: the classroom "B2" of teacher c or, after a
\* collision of generated codes, of teacher Ab, with either key and instruction;
\* and a second classroom
SyncClassroomInputs ==
    {[code |-> <<"B", "2">>, teacherName |-> n, apiKey |-> k,
      systemInstruction |-> i, createdAt |-> 0] :
        n \in {<<"c">>, <<"A", "b">>}, k \in ApiKeyInputs, i \in InstructionInputs}
    \cup {[code |-> <<"A", "1", "B", "2", "C", "3">>, teacherName |-> <<"A", "b">>,
           apiKey |-> "", systemInstruction |-> DefaultInstruction, createdAt |-> 0]}

NextSync ==
    \/ \E c \in SyncClassroomInputs : saveClassroom(c)
    \/ \E c \in {<<" ", "B", "2">>, <<"c", "c">>} : handleStudentLogin(<<"7", " ">>, c)
    \/ handleTeacherLogin(<<"c">>, <<"b", "2">>, now)
    \/ \E v \in ApiKeyInputs : setApiKey(v)
    \/ handleSave
    \/ handleLogout
    \/ \E trigger \in {"focus", "interval"}, i \in 1..2 : checkConfig(trigger, i)
    \/ reload

SpecSync == Init /\ [][NextSync]_vars

-----------------------------------------------------------------------------
(* Chat: App.tsx and ChatArea.tsx *)

\* updateCurrentSession: setSessions(prev => prev.map(...))
updateCurrentSession(list, updatedSession) ==
    [i \in 1..Len(list) |->
        IF list[i].id = updatedSession.id THEN updatedSession ELSE list[i]]

\* saveSession writing the collection once after the removal and once more
\* after the push: a fault at the second write leaves the removal applied
trySaveSession_Partial(all, session, fault) ==
    IF fault THEN SelectSeq(all, LAMBDA s : s.id # session.id)
    ELSE saveSessionResult(all, session)

\* saveSession called where localStorage.setItem may throw (the quota is
\* exceeded): the collection is then left as it was
trySaveSession(all, session, fault) ==
    IF fault THEN all ELSE saveSessionResult(all, session)

StorageFault == [isError |-> TRUE, message |-> "The quota has been exceeded."]

\* what the AI collaborator may throw: sendMessageToGemini always throws an
\* Error; generateImage rethrows whatever it caught
AIErrorInputs(model) ==
    IF model = GEMINI_IMAGE
    THEN {[isError |-> TRUE, message |-> "No image data returned from the model."],
          [isError |-> FALSE]}
    ELSE {[isError |-> TRUE, message |-> "Failed to communicate with AI service."]}

\* the text of the message the catch block of handleSend builds:
\* `Error: ${error.message}` for an Error, the default otherwise
CatchText(error) ==
    IF ~error.isError THEN "Error: Unable to reach the AI service."
    ELSE CASE error.message = "Failed to communicate with AI service."
                -> "Error: Failed to communicate with AI service."
           [] error.message = "No image data returned from the model."
                -> "Error: No image data returned from the model."
           [] error.message = "The quota has been exceeded."
                -> "Error: The quota has been exceeded."

MissingKeyText == "SYSTEM ERROR: The Teacher has not configured the API Key yet."

UserMessage(text, t) == [id |-> ToString(t), role |-> "user", text |-> text, timestamp |-> t]

ModelMessage(text, t) ==
    [id |-> ToString(t + 1), role |-> "model", text |-> text, timestamp |-> t]

ImageMessage(t) ==
    [id |-> ToString(t + 1), role |-> "model", text |-> "Here is the image you requested:",
     timestamp |-> t, attachment |-> "base64"]

WithMessage(session, msg) == [session EXCEPT !.messages = Append(@, msg)]

\* the session handleSend builds from the session prop and the user's text (the
\* texts entered here are shorter than the 30 characters the title keeps)
UpdatedSession(session, userText, selectedModel, t) ==
    [session EXCEPT !.messages = Append(@, UserMessage(userText, t)),
                    !.title = IF Len(session.messages) = 0 THEN userText ELSE @,
                    !.modelId = selectedModel]

\* the operations of the chat other than a plain new chat are explored while
\* the in-memory list is nearly empty and once it has reached the cap
ChatNearEdge ==
    \/ Len(sessions) <= 1
    \/ Len(sessions) >= RetentionCap

ChargeChat(free) ==
    IF free THEN edits' = edits
    ELSE ChatNearEdge /\ edits < MaxChatEdits /\ edits' = edits + 1

\* the plain fill of the chat: a new chat at a new clock value, read once
PlainNewChat(t1, t2) == t1 = now + 1 /\ t2 = t1

ChatRegistryUnchanged ==
    UNCHANGED <<classroomsStore, user, classroomConfig, dash, sessionStorage, triggers,
                reads, firstCode>>

handleNewChat(t1, t2) ==
    LET s == newSession(user.id, GEMINI_FLASH, classroomConfig.code, t1, t2)
    IN  /\ user # Null
        /\ classroomConfig # Null
        /\ user.role = "STUDENT"
        /\ t1 \in {now, now + 1}
        /\ t2 \in {t1, t1 + 1}
        /\ t2 <= MaxClock
        /\ ChargeChat(PlainNewChat(t1, t2))
        /\ sessionsStore' = saveSessionResult(sessionsStore, s)
        /\ now' = t2
        /\ created' = created \cup {<<s.id, user.id>>}
        /\ deletedIds' = deletedIds \ {s.id}
        /\ Render(<<s>> \o sessions, s.id, chat, pending)
        /\ last' = [op |-> "handleNewChat", session |-> s,
                    evicted |-> Evicted(sessionsStore, s)]
        /\ ChatRegistryUnchanged

onSelectSession(id) ==
    /\ user # Null
    /\ id # currentSessionId
    /\ ChargeChat(FALSE)
    /\ Render(sessions, id, chat, pending)
    /\ last' = [op |-> "onSelectSession", id |-> id]
    /\ UNCHANGED <<sessionsStore, now, created, deletedIds>>
    /\ ChatRegistryUnchanged

handleDeleteSession(id, confirmed) ==
    /\ user # Null
    /\ ChargeChat(FALSE)
    /\ IF confirmed
       THEN /\ sessionsStore' = deleteSessionResult(sessionsStore, id)
            /\ deletedIds' = deletedIds \cup {id}
            /\ Render(SelectSeq(sessions, LAMBDA x : x.id # id),
                      IF currentSessionId = id THEN NoId ELSE currentSessionId,
                      chat, pending)
       ELSE /\ UNCHANGED <<sessionsStore, deletedIds>>
            /\ ChatUnchanged
    /\ last' = [op |-> "handleDeleteSession", id |-> id, confirmed |-> confirmed]
    /\ UNCHANGED <<now, created>>
    /\ ChatRegistryUnchanged

handleModelChange(model, fault) ==
    LET updated == [CurrentSession EXCEPT !.modelId = model]
    IN  /\ chat # Null
        /\ model # chat.selectedModel
        /\ ChargeChat(FALSE)
        /\ sessionsStore' = trySaveSession(sessionsStore, updated, fault)
        /\ Render(updateCurrentSession(sessions, updated), currentSessionId,
                  [chat EXCEPT !.selectedModel = model], pending)
        /\ last' = [op |-> "handleModelChange", session |-> updated, threw |-> fault]
        /\ UNCHANGED <<now, created, deletedIds>>
        /\ ChatRegistryUnchanged

\* handleSend up to its return, its throw or its await. userText is
\* input.trim(); fault1 and fault2 tell whether the first and the second
\* saveSession call, if reached, throw
handleSend(userText, fault1, fault2) ==
    LET session == CurrentSession
        apiKey == classroomConfig.apiKey
        updatedSession == UpdatedSession(session, userText, chat.selectedModel, now)
        errorSession == WithMessage(updatedSession, ModelMessage(MissingKeyText, now))
        saved1 == trySaveSession(sessionsStore, updatedSession, fault1)
        listed1 == updateCurrentSession(sessions, updatedSession)
        request == [session |-> updatedSession, model |-> chat.selectedModel,
                    apiKey |-> apiKey,
                    systemInstruction |-> classroomConfig.systemInstruction,
                    alive |-> TRUE]
    IN  /\ chat # Null
        /\ classroomConfig # Null
        /\ userText # ""
        /\ ~chat.isLoading
        /\ Cardinality(pending) < MaxPending
        /\ ChargeChat(FALSE)
        /\ IF fault1
           THEN /\ sessionsStore' = saved1
                /\ Render(listed1, currentSessionId, chat, pending)
                /\ last' = [op |-> "handleSend", session |-> updatedSession,
                            apiKey |-> apiKey, threw |-> TRUE, called |-> FALSE,
                            final |-> updatedSession]
           ELSE IF apiKey = ""
           THEN /\ sessionsStore' = trySaveSession(saved1, errorSession, fault2)
                /\ Render(updateCurrentSession(listed1, errorSession), currentSessionId,
                          chat, pending)
                /\ last' = [op |-> "handleSend", session |-> updatedSession,
                            apiKey |-> apiKey, threw |-> fault2, called |-> FALSE,
                            final |-> errorSession]
           ELSE /\ sessionsStore' = saved1
                /\ Render(listed1, currentSessionId, [chat EXCEPT !.isLoading = TRUE],
                          pending \cup {request})
                /\ last' = [op |-> "handleSend", session |-> updatedSession,
                            apiKey |-> apiKey, threw |-> FALSE, called |-> TRUE,
                            final |-> updatedSession, request |-> request]
        /\ UNCHANGED <<now, created, deletedIds>>
        /\ ChatRegistryUnchanged

\* handleSend without its `finally`
Finally_Skip(request) == chat

\* the `finally` of handleSend: setIsLoading(false) on the ChatArea that sent the
\* request, if it is still mounted
Finally(request) == IF request.alive THEN [chat EXCEPT !.isLoading = FALSE] ELSE chat

\* the continuation appending to the session shown when the reply arrives
ReplyBase_Current(request) ==
    IF CurrentSession = Null THEN request.session ELSE CurrentSession

\* the session the continuation of handleSend appends to: the updatedSession
\* its closure captured before the await
ReplyBase(request) == request.session

\* the AI call of a suspended handleSend resolves. fault1: saveSession of the
\* reply throws, inside the try block; fault2: saveSession in the catch block throws
aiResolve(request, fault1, fault2) ==
    LET aiMsg == IF request.model = GEMINI_IMAGE THEN ImageMessage(now)
                 ELSE ModelMessage("reply", now)
        finalSession == WithMessage(ReplyBase(request), aiMsg)
        errorSession == WithMessage(ReplyBase(request),
                                    ModelMessage(CatchText(StorageFault), now))
        listed1 == updateCurrentSession(sessions, finalSession)
        saved1 == trySaveSession(sessionsStore, finalSession, fault1)
    IN  /\ request \in pending
        /\ IF fault1
           THEN /\ sessionsStore' = trySaveSession(saved1, errorSession, fault2)
                /\ Render(updateCurrentSession(listed1, errorSession), currentSessionId,
                          Finally(request), pending \ {request})
                /\ last' = [op |-> "aiResolve", request |-> request, faults |-> TRUE,
                            threw |-> fault2, final |-> errorSession]
           ELSE /\ sessionsStore' = saved1
                /\ Render(listed1, currentSessionId, Finally(request),
                          pending \ {request})
                /\ last' = [op |-> "aiResolve", request |-> request, faults |-> FALSE,
                            threw |-> FALSE, final |-> finalSession]
        /\ UNCHANGED <<now, created, deletedIds, edits>>
        /\ ChatRegistryUnchanged

\* the AI call of a suspended handleSend rejects with `error`. fault: saveSession
\* in the catch block throws
aiReject(request, error, fault) ==
    LET errorSession == WithMessage(ReplyBase(request), ModelMessage(CatchText(error), now))
    IN  /\ request \in pending
        /\ error \in AIErrorInputs(request.model)
        /\ sessionsStore' = trySaveSession(sessionsStore, errorSession, fault)
        /\ Render(updateCurrentSession(sessions, errorSession), currentSessionId,
                  Finally(request), pending \ {request})
        /\ last' = [op |-> "aiReject", request |-> request, faults |-> fault,
                    threw |-> fault, final |-> errorSession, error |-> error]
        /\ UNCHANGED <<now, created, deletedIds, edits>>
        /\ ChatRegistryUnchanged

\* ids the user may click in the sidebar: the first and the last listed
ListedIdInputs ==
    IF sessions = <<>> THEN {} ELSE {sessions[1].id, sessions[Len(sessions)].id}

\* the classroom records the teacher's instance writes in the chat specification
ChatClassroomInputs ==
    {[code |-> <<"B", "2">>, teacherName |-> <<"c">>, apiKey |-> k,
      systemInstruction |-> DefaultInstruction, createdAt |-> 0] : k \in ApiKeyInputs}

NextChat ==
    \/ \E c \in ChatClassroomInputs : user = Null /\ saveClassroom(c)
    \/ handleStudentLogin(FillUser, <<" ", "B", "2">>)
    \/ ChatNearEdge /\ handleLogout
    \/ \E t1 \in {now, now + 1}, t2 \in {now, now + 1, now + 2} :
          (Len(sessions) <= 1 \/ edits <= MaxFillEdits) /\ handleNewChat(t1, t2)
    \/ \E id \in ListedIdInputs : onSelectSession(id)
    \/ \E id \in ListedIdInputs, confirmed \in BOOLEAN : handleDeleteSession(id, confirmed)
    \/ \E m \in {GEMINI_PRO, GEMINI_IMAGE}, fault \in BOOLEAN : handleModelChange(m, fault)
    \/ \E text \in {"hi", ""}, fault1, fault2 \in BOOLEAN : handleSend(text, fault1, fault2)
    \/ \E r \in pending, fault1, fault2 \in BOOLEAN : aiResolve(r, fault1, fault2)
    \/ \E r \in pending : \E e \in AIErrorInputs(r.model), fault \in BOOLEAN :
          aiReject(r, e, fault)

SpecChat == Init /\ [][NextChat]_vars

\* one student id used under two classroom codes on the same store. The
\* classrooms have no key, so that a send completes without a call
ClassClassroomInputs ==
    {[code |-> c, teacherName |-> <<"c">>, apiKey |-> "",
      systemInstruction |-> DefaultInstruction, createdAt |-> 0] :
        c \in {<<"B", "2">>, <<"C", "C">>}}

NextClass ==
    \/ \E c \in ClassClassroomInputs : user = Null /\ sessionsStore = <<>> /\ saveClassroom(c)
    \/ \E c \in {<<" ", "B", "2">>, <<"c", "c">>} : handleStudentLogin(FillUser, c)
    \/ ChatNearEdge /\ handleLogout
    \/ handleNewChat(now + 1, now + 1)
    \/ handleSend("hi", FALSE, FALSE)

SpecClass == Init /\ [][NextClass]_vars

\* a student's instance that polls and chats while the teacher's instance
\* writes keys and instructions
LiveClassroomInputs ==
    {[code |-> <<"B", "2">>, teacherName |-> <<"c">>, apiKey |-> k,
      systemInstruction |-> i, createdAt |-> 0] :
        k \in ApiKeyInputs, i \in InstructionInputs}

NextSyncLive ==
    \/ \E c \in LiveClassroomInputs : saveClassroom(c)
    \/ handleStudentLogin(FillUser, <<" ", "B", "2">>)
    \/ handleLogout
    \/ \E trigger \in {"focus", "interval"}, i \in 1..2 : checkConfig(trigger, i)
    \/ Len(sessions) < MaxLiveSessions /\ handleNewChat(now + 1, now + 1)
    \/ handleSend("hi", FALSE, FALSE)
    \/ \E r \in pending : aiResolve(r, FALSE, FALSE)
    \/ \E r \in pending : \E e \in AIErrorInputs(r.model) : aiReject(r, e, FALSE)

\* the interval keeps firing while it is registered
SpecSyncLive ==
    Init /\ [][NextSyncLive]_vars /\ WF_vars(\E i \in 1..2 : checkConfig("interval", i))

-----------------------------------------------------------------------------
(* Two instances saving sessions: saveSession of storageService.ts in its two *)
(* accesses to localStorage                                                   *)

\* saveSession reading the collection again right before it writes
saveSessionWritten_Reread(current, read, session) == saveSessionResult(current, session)

\* the collection setItem writes: computed from the array parsed at the
\* getItem, whatever the store holds by now
saveSessionWritten(current, read, session) == saveSessionResult(read, session)

\* sessions an instance may save: a stored session with a message appended or
\* its model changed, or a session it has just created
RaceInputs ==
    UpdateInputs
    \cup {newSession(u, GEMINI_FLASH, ClassOf(u), t, t) : u \in Users, t \in {now, now + 1}}

\* saveSession(session) in instance i up to its getItem
saveSessionRead(i, session) ==
    /\ reads[i] = Null
    /\ session.createdAt <= MaxClock
    /\ NearEdge
    /\ edits < MaxRaceReads
    /\ edits' = edits + 1
    /\ reads' = [reads EXCEPT ![i] = [all |-> sessionsStore, session |-> session]]
    /\ now' = IF session.createdAt > now THEN session.createdAt ELSE now
    /\ last' = [op |-> "saveSessionRead", instance |-> i, session |-> session]
    /\ UNCHANGED <<sessionsStore, created, deletedIds, classroomsStore, user, classroomConfig,
                   dash, sessionStorage, triggers, firstCode>>
    /\ ChatUnchanged

\* the rest of that saveSession call: the filter, the push, the cap and setItem
saveSessionWrite(i) ==
    /\ reads[i] # Null
    /\ sessionsStore' = saveSessionWritten(sessionsStore, reads[i].all, reads[i].session)
    /\ reads' = [reads EXCEPT ![i] = Null]
    /\ last' = [op |-> "saveSessionWrite", instance |-> i, session |-> reads[i].session,
                read |-> reads[i].all,
                lost |-> Ids(sessionsStore) \ (Ids(reads[i].all) \cup {reads[i].session.id})]
    /\ UNCHANGED <<now, created, deletedIds, edits, classroomsStore, user, classroomConfig,
                   dash, sessionStorage, triggers, firstCode>>
    /\ ChatUnchanged

NextRace ==
    \/ (\A i \in Instances : reads[i] = Null)
          /\ createSession(FillUser, GEMINI_FLASH, ClassOf(FillUser), now + 1, now + 1)
    \/ \E i \in Instances : \E s \in RaceInputs : saveSessionRead(i, s)
    \/ \E i \in Instances : saveSessionWrite(i)

SpecRace == Init /\ [][NextRace]_vars

-----------------------------------------------------------------------------
(* Properties of the session ledger, checked under Spec *)

SessionsOfUser(all, userId) == SelectSeq(all, LAMBDA s : s.userId = userId)

UserIdsIn(all) == {all[i].userId : i \in 1..Len(all)}

LastWroteSession == last.op \in {"saveSession", "createSession"}

\* C1: after any sequence of saveSession, createSession and deleteSession calls
\* from the empty collection, getSessions(u) holds at most 20 sessions for every
\* user u.
C1_RetentionCapHolds ==
    \A u \in Users \cup UserIdsIn(sessionsStore) :
        Len(getSessions(sessionsStore, u)) <= RetentionCap

\* C1 witness: a save has just evicted a session and left its user at the cap.
C1_Witness ==
    /\ LastWroteSession
    /\ last.evicted > 0
    /\ CountOf(sessionsStore, last.session.userId) = RetentionCap

\* C2: after saveSession(s) returns, the persisted collection holds an entry
\* equal to s, also when s.userId already holds 20 sessions newer than s.
C2_SavedSessionPresent ==
    LastWroteSession => \E i \in 1..Len(sessionsStore) : sessionsStore[i] = last.session

\* C3: a saveSession(s) with s.userId = A, and a deleteSession of an id that A
\* created, leave the persisted sessions of every other user B exactly as they
\* were, also when s.id is the id of a session stored for B.
C3_OtherUsersUntouched ==
    [][ /\ (last'.op \in {"saveSession", "createSession"}) =>
             \A b \in UserIdsIn(sessionsStore) \ {last'.session.userId} :
                 SessionsOfUser(sessionsStore', b) = SessionsOfUser(sessionsStore, b)
        /\ (last'.op = "deleteSession") =>
             \A a \in Users :
                 <<last'.sessionId, a>> \in created =>
                     \A b \in UserIdsIn(sessionsStore) \ {a} :
                         SessionsOfUser(sessionsStore', b) = SessionsOfUser(sessionsStore, b)
      ]_vars

\* the clock values at which FillUser has created a session
FillTimes == {t \in 0..MaxClock : <<ToString(t), FillUser>> \in created}

\* the k largest members of a set of numbers
Largest(S, k) == {t \in S : Cardinality({x \in S : x > t}) < k}

\* C4: eviction is oldest-first. While one user has saved N sessions with
\* distinct ids and strictly increasing createdAt into the empty store and nothing
\* else has run (edits = 0), the store holds exactly the min(N, 20) sessions with
\* the largest createdAt, and getSessions returns them newest first.
C4_EvictionOldestFirst ==
    edits = 0 =>
        LET kept == Largest(FillTimes, RetentionCap)
            listed == getSessions(sessionsStore, FillUser)
        IN  /\ Len(sessionsStore) = Cardinality(kept)
            /\ Ids(sessionsStore) = {ToString(t) : t \in kept}
            /\ \A i \in 1..Len(sessionsStore) :
                   sessionsStore[i].id = ToString(sessionsStore[i].createdAt)
            /\ Elems(listed) = Elems(sessionsStore)
            /\ Len(listed) = Len(sessionsStore)
            /\ \A i \in 1..(Len(listed) - 1) : listed[i].createdAt > listed[i + 1].createdAt
            /\ (Cardinality(FillTimes) = 21 =>
                   Cardinality(FillTimes \ kept) = 1
                   /\ \A t \in FillTimes \ kept : \A x \in kept : t < x)

\* C4 witness: the scenario of ids 1..22: exactly 3..22 remain, 22 listed first.
C4_Witness ==
    /\ edits = 0
    /\ FillTimes = 1..22
    /\ Ids(sessionsStore) = {ToString(t) : t \in 3..22}
    /\ getSessions(sessionsStore, FillUser)[1].id = "22"
    /\ getSessions(sessionsStore, FillUser)[20].id = "3"

\* C5: saveSession is idempotent: saving the same session a second time leaves
\* the collection, as an ordered sequence, as the first save left it; for the
\* session saved last and for every session a caller may pass next.
C5_SaveIdempotent ==
    /\ LastWroteSession =>
           saveSessionResult(sessionsStore, last.session) = sessionsStore
    /\ \A s \in SessionInputs :
           LET once == saveSessionResult(sessionsStore, s)
           IN  saveSessionResult(once, s) = once

\* C5 witness: the session saved last tied on createdAt with a stored session of
\* its user and was itself evicted by the cap.
C5_Witness ==
    /\ last.op = "saveSession"
    /\ last.evicted > 0
    /\ last.session.id \notin Ids(sessionsStore)
    /\ \E i \in 1..Len(sessionsStore) :
           /\ sessionsStore[i].userId = last.session.userId
           /\ sessionsStore[i].createdAt = last.session.createdAt

\* C11: deleteSession(id) with an id that matches no stored session leaves the
\* persisted collection unchanged (same sessions, same order); with a matching id
\* it removes exactly the entries with that id: every other entry stays, in its
\* order.
C11_DeleteRemovesExactlyId ==
    [][ last'.op = "deleteSession" =>
            LET id == last'.sessionId
                hits == {i \in 1..Len(sessionsStore) : sessionsStore[i].id = id}
            IN  /\ hits = {} => sessionsStore' = sessionsStore
                /\ id \notin Ids(sessionsStore')
                /\ Len(sessionsStore') = Len(sessionsStore) - Cardinality(hits)
                /\ \A p \in (1..Len(sessionsStore)) \ hits :
                       sessionsStore'[p - Cardinality({h \in hits : h < p})]
                           = sessionsStore[p]
      ]_vars

\* C11 witness: a deleteSession of an id that is not stored has just run on a
\* store that holds 20 sessions.
C11_Witness ==
    /\ last.op = "deleteSession"
    /\ ~last.matched
    /\ Len(sessionsStore) = RetentionCap

\* C12: session ids are unique within the persisted collection: no two stored
\* sessions have the same id, after any sequence of saveSession, createSession
\* and deleteSession calls from the empty store.
C12_SessionIdsUnique ==
    \A i, j \in 1..Len(sessionsStore) :
        sessionsStore[i].id = sessionsStore[j].id => i = j

\* C12 witness: a stored session has just been saved again with a message
\* appended, next to other stored sessions.
C12_Witness ==
    /\ last.op = "saveSession"
    /\ Len(last.session.messages) = 1
    /\ Len(sessionsStore) >= 2
    /\ \E i \in 1..Len(sessionsStore) : sessionsStore[i] = last.session

\* C13: createSession always adds a new session: the id it returns differs from
\* every id already in the store, so no stored session is replaced or removed on
\* account of its id, also when two creates happen at the same clock value.
C13_CreateAddsNewSession ==
    [][ last'.op = "createSession" =>
            /\ last'.session.id \notin Ids(sessionsStore)
            /\ Len(sessionsStore') = Len(sessionsStore) + 1 - last'.evicted
      ]_vars

-----------------------------------------------------------------------------
(* Properties of the classroom registry, checked under SpecRegistry *)

Codes(stored) == {stored[i].code : i \in 1..Len(stored)}

NoDuplicateCodes(stored) ==
    \A i, j \in 1..Len(stored) : stored[i].code = stored[j].code => i = j

\* the record the operation that ran last passed to saveClassroom, if any
LastSaved ==
    IF last.op = "handleSave" THEN last.saved
    ELSE IF last.op = "teacherLogin" /\ last.ok THEN last.saved
    ELSE Null

\* classroom records a caller may pass to saveClassroom
ClassroomInputs ==
    {[code |-> generateCode(d), teacherName |-> <<"c">>, apiKey |-> k,
      systemInstruction |-> i, createdAt |-> 0] :
        d \in RandomDigits, k \in ApiKeyInputs, i \in InstructionInputs}

\* C6: round trip on the registry: after saveClassroom(c), getClassroom(c.code)
\* returns a record equal to c in every field, whether c.code was stored before
\* (replace) or not (append); for the record saved last and for every record a
\* caller may pass next.
C6_SaveThenGetRoundTrip ==
    /\ LastSaved # Null => getClassroom(classroomsStore, LastSaved.code) = LastSaved
    /\ \A c \in ClassroomInputs :
           getClassroom(saveClassroomResult(classroomsStore, c), c.code) = c

\* C6 witness: the dashboard has just saved changed settings over the stored
\* record of its code, in a registry of two records.
C6_Witness ==
    /\ last.op = "handleSave"
    /\ last.replaced
    /\ last.saved.apiKey = "k1"
    /\ Len(classroomsStore) = 2
    /\ \E i \in 1..2 : classroomsStore[i] = last.saved

\* C7: the registry never holds two records with the same code, and the code of
\* a stored record never changes (nor is a record removed), whatever sequence of
\* teacher logins, createClassroom calls and dashboard saves runs.
C7_CodesUniqueAndImmutable ==
    [][ /\ NoDuplicateCodes(classroomsStore')
        /\ Len(classroomsStore') >= Len(classroomsStore)
        /\ \A i \in 1..Len(classroomsStore) :
               classroomsStore'[i].code = classroomsStore[i].code
      ]_vars

\* C7 witness: a teacher login has just created a classroom whose generated code
\* was already stored: the new record took the place of the stored one.
C7_Witness ==
    /\ last.op = "teacherLogin"
    /\ last.ok
    /\ last.createdNew
    /\ last.replaced
    /\ Len(classroomsStore) = 1
    /\ classroomsStore[1] = last.saved

\* C8: a stored classroom record is changed only by a save made by the teacher
\* whose name it carries, and is never removed: a login (createClassroom) by a
\* teacher with another name leaves every stored record unchanged, whatever code
\* generateCode returns.
C8_OnlyOwnerChangesRecord ==
    [][ /\ Len(classroomsStore') >= Len(classroomsStore)
        /\ \A i \in 1..Len(classroomsStore) :
               classroomsStore'[i] # classroomsStore[i] =>
                   /\ last'.op = "handleSave"
                   /\ ToLowerCase(classroomsStore[i].teacherName)
                          = ToLowerCase(Trim(user.name))
      ]_vars

\* C9: after a teacher login with name n created a classroom with code X, every
\* later login whose trimmed name equals n ignoring case returns code X and
\* creates nothing, and the registry never holds two records whose teacherName
\* are equal ignoring case.
C9_LoginReusesClassroomByName ==
    /\ (last.op = "teacherLogin" /\ last.ok /\ ~last.first) =>
           \A p \in firstCode :
               p[1] = ToLowerCase(Trim(last.teacherName)) =>
                   last.code = p[2] /\ ~last.createdNew
    /\ \A i, j \in 1..Len(classroomsStore) :
           ToLowerCase(classroomsStore[i].teacherName)
               = ToLowerCase(classroomsStore[j].teacherName) => i = j

\* C10: getClassroom matches the code exactly and case-sensitively: the
\* lower-cased form of a stored code with letters finds nothing, and a record
\* found carries exactly the code asked for; a student login succeeds exactly
\* when the trimmed, upper-cased entry is a stored code.
C10_ExactCodeMatch ==
    /\ \A c \in Codes(classroomsStore) :
           ToLowerCase(c) # c => getClassroom(classroomsStore, ToLowerCase(c)) = Null
    /\ \A c \in CodeInputs \cup {Trim(x) : x \in CodeInputs} :
           getClassroom(classroomsStore, c) # Null =>
               getClassroom(classroomsStore, c).code = c
    /\ last.op = "studentLogin" =>
           /\ last.ok <=> /\ Trim(last.studentId) # <<>>
                          /\ ToUpperCase(Trim(last.typedCode)) \in Codes(classroomsStore)
           /\ last.ok => /\ user.classCode = ToUpperCase(Trim(last.typedCode))
                         /\ classroomConfig.code = ToUpperCase(Trim(last.typedCode))

\* C10 witness: the only stored code is "A1B2C3"; a student who typed "a1b2c3"
\* is logged in, while getClassroom of what was typed returns null.
C10_Witness ==
    /\ last.op = "studentLogin"
    /\ last.ok
    /\ Codes(classroomsStore) = {<<"A", "1", "B", "2", "C", "3">>}
    /\ last.typedCode = <<"a", "1", "b", "2", "c", "3">>
    /\ getClassroom(classroomsStore, last.typedCode) = Null
    /\ user.role = "STUDENT"

-----------------------------------------------------------------------------
(* Properties of the config polling, checked under SpecSync and SpecSyncLive *)

\* the stored record of the cached classroom's code (Null when there is none)
Persisted ==
    IF classroomConfig = Null THEN Null
    ELSE getClassroom(classroomsStore, classroomConfig.code)

\* the stored record differs from the cached one in a field checkConfig compares
Differs ==
    /\ Persisted # Null
    /\ \/ Persisted.apiKey # classroomConfig.apiKey
       \/ Persisted.systemInstruction # classroomConfig.systemInstruction

\* C14: each run of checkConfig, when the persisted classroom of the cached code
\* differs from the cached classroomConfig in apiKey or systemInstruction,
\* replaces the whole cached object: right after it classroomConfig equals the
\* persisted record in every field; when neither field differs, classroomConfig
\* is left as it was.
C14_CheckReplacesWholeConfig ==
    [][ last'.op = "checkConfig" =>
            /\ Differs => /\ classroomConfig' = Persisted
                          /\ classroomConfig' = Persisted'
            /\ ~Differs => classroomConfig' = classroomConfig
      ]_vars

\* C14 witness: a check has just replaced a cached config that also differed
\* from the persisted record in teacherName, a field it does not compare.
C14_Witness ==
    /\ last.op = "checkConfig"
    /\ last.cached.teacherName # classroomConfig.teacherName
    /\ last.cached.apiKey # classroomConfig.apiKey
    /\ classroomConfig = Persisted

\* C15: a saved change to apiKey or systemInstruction eventually reaches a
\* logged-in client: while the interval keeps firing, a cached config that
\* differs from the persisted record in one of the two fields leads to a state
\* where they agree in both, or the client has logged out; and a message sent
\* while they agree is sent with the persisted key and instruction.
C15_ChangeReachesClient ==
    /\ (user # Null /\ Differs) ~> (user = Null \/ ~Differs)
    /\ [][ (last'.op = "handleSend" /\ ~Differs /\ last'.called) =>
               /\ last'.request.apiKey = Persisted.apiKey
               /\ last'.request.systemInstruction = Persisted.systemInstruction
               /\ last'.request \in pending'
         ]_vars

\* C15 witness: a student who logged in while the key was empty has just sent
\* a message with the teacher's new key, which a check had brought into the
\* cached config.
C15_Witness ==
    /\ last.op = "handleSend"
    /\ last.called
    /\ last.request.apiKey = "k1"
    /\ user.role = "STUDENT"
    /\ \E i \in 1..Len(sessions) :
           \E j \in 1..Len(sessions[i].messages) :
               sessions[i].messages[j].text = MissingKeyText
    /\ ~Differs

\* C16: while nobody is logged in no trigger is registered, no check runs and
\* the cached config is absent, whatever the store holds; and at no time is more
\* than one interval or more than one focus listener registered, the registered
\* closure being the one of the current classroomConfig.
C16_TriggersDeregistered ==
    /\ Len(triggers.focus) <= 1
    /\ Len(triggers.interval) <= 1
    /\ \A i \in 1..Len(triggers.focus) : triggers.focus[i] = classroomConfig
    /\ \A i \in 1..Len(triggers.interval) : triggers.interval[i] = classroomConfig
    /\ user = Null => /\ classroomConfig = Null
                      /\ triggers.focus = <<>>
                      /\ triggers.interval = <<>>
    /\ last.op = "checkConfig" => last.loggedIn

\* C16 witness: after a logout another instance has written a new key into the
\* store, and nothing is registered or cached here.
C16_Witness ==
    /\ last.op = "saveClassroom"
    /\ last.replaced
    /\ last.saved.apiKey = "k1"
    /\ user = Null
    /\ sessionStorage = Null
    /\ triggers = NoTriggers
    /\ classroomConfig = Null

\* C17: once a config is cached for a logged-in user, every step that keeps the
\* user logged in keeps a cached config of the same code: no check sets it to
\* absent or to a record of another code; and triggers are registered only
\* while both a user and a cached config are present.
C17_StaysSynced ==
    [][ /\ (user # Null /\ classroomConfig # Null /\ user' # Null) =>
               /\ classroomConfig' # Null
               /\ classroomConfig'.code = classroomConfig.code
        /\ (triggers'.focus # <<>> \/ triggers'.interval # <<>>) =>
               (user' # Null /\ classroomConfig' # Null)
      ]_vars

\* C17 witness: a check has just replaced the cached config of a logged-in user
\* by the persisted record of the same code, in a registry of two classrooms.
C17_Witness ==
    /\ last.op = "checkConfig"
    /\ user # Null
    /\ last.persisted # last.cached
    /\ classroomConfig = last.persisted
    /\ classroomConfig.code = last.cached.code
    /\ Len(classroomsStore) = 2
    /\ triggers.interval = <<classroomConfig>>

-----------------------------------------------------------------------------
(* Properties of handleSend, checked under SpecChat *)

\* the stored session with the given id (Null when there is none)
StoredSession(id) ==
    Find(sessionsStore, [i \in 1..Len(sessionsStore) |-> sessionsStore[i].id = id])

\* the messages end with a user message followed by one model message of that text
EndsWithUserThenModel(messages, text) ==
    LET n == Len(messages)
    IN  /\ n >= 2
        /\ messages[n - 1].role = "user"
        /\ messages[n].role = "model"
        /\ messages[n].text = text

\* C18: a failure of the AI call never escapes handleSend: when the AI call of a
\* send with a non-empty key fails and the store writes succeed, handleSend
\* completes without throwing, and the persisted session then ends with the
\* user's message followed by exactly one model-role message carrying the error text.
C18_AIFailureBecomesMessage ==
    (last.op = "aiReject" /\ ~last.faults) =>
        /\ ~last.threw
        /\ last.request.apiKey # ""
        /\ StoredSession(last.request.session.id) # Null
        /\ StoredSession(last.request.session.id).messages
               = Append(last.request.session.messages,
                        ModelMessage(CatchText(last.error), now))
        /\ EndsWithUserThenModel(StoredSession(last.request.session.id).messages,
                                 CatchText(last.error))

\* C19: a failure of a store write during handleSend is never turned into a chat
\* message: no session, in memory or persisted, holds a model-role message
\* carrying the storage error text.
C19_StorageFaultNotAMessage ==
    \A x \in Elems(sessions) \cup Elems(sessionsStore) :
        \A j \in 1..Len(x.messages) :
            ~(x.messages[j].role = "model" /\ x.messages[j].text = CatchText(StorageFault))

\* C20: when the cached apiKey is empty, a send whose store writes succeed
\* appends the user's message and then one model-role error message to the
\* session, persists both, makes no call to the AI collaborator and does not throw.
C20_MissingKeyBecomesMessage ==
    (last.op = "handleSend" /\ last.apiKey = "") =>
        /\ ~last.called
        /\ \A p \in pending : ~p.alive
        /\ ~last.threw =>
               /\ CurrentSession # Null
               /\ CurrentSession.messages = last.final.messages
               /\ EndsWithUserThenModel(CurrentSession.messages, MissingKeyText)
               /\ StoredSession(last.session.id) # Null
               /\ StoredSession(last.session.id).messages = last.final.messages

-----------------------------------------------------------------------------
(* Properties of the chat with replies in flight, checked under SpecChat *)

\* the session with the given id in a collection (Null when there is none)
StoredIn(all, id) == Find(all, [i \in 1..Len(all) |-> all[i].id = id])

IsPrefix(a, b) == Len(a) <= Len(b) /\ SubSeq(b, 1, Len(a)) = a

\* the operations of ChatArea that call saveSession
ChatAreaOps == {"handleSend", "handleModelChange", "aiResolve", "aiReject"}

\* C22: the persisted message sequence of a session only grows by appending:
\* whenever a send, a model change or the arrival of a reply or of an AI error
\* writes a session that was stored before, the messages stored before are a
\* prefix of the messages stored after.
C22_MessagesOnlyAppended ==
    [][ last'.op \in ChatAreaOps =>
            \A i \in 1..Len(sessionsStore) :
                \A j \in 1..Len(sessionsStore') :
                    sessionsStore'[j].id = sessionsStore[i].id =>
                        IsPrefix(sessionsStore[i].messages, sessionsStore'[j].messages)
      ]_vars

\* C23: a reply (or an AI error) that arrives while another session, or none, is
\* current goes to the session the request was issued from: the session the
\* continuation writes has the id captured at send time and that send's
\* messages followed by one model message; in memory and in the store every
\* session with another id, the one selected at arrival included, is left as
\* it was, and the session with the captured id holds what was written.
C23_ReplyGoesToIssuingSession ==
    [][ (last'.op \in {"aiResolve", "aiReject"}
         /\ currentSessionId # last'.request.session.id) =>
            LET rid == last'.request.session.id
            IN  /\ last'.final.id = rid
                /\ IsPrefix(last'.request.session.messages, last'.final.messages)
                /\ Len(last'.final.messages) = Len(last'.request.session.messages) + 1
                /\ last'.final.messages[Len(last'.final.messages)].role = "model"
                /\ currentSessionId' = currentSessionId
                /\ Len(sessions') = Len(sessions)
                /\ \A i \in 1..Len(sessions) :
                       sessions'[i] = IF sessions[i].id = rid THEN last'.final ELSE sessions[i]
                /\ \A x \in Elems(sessionsStore') :
                       IF x.id = rid THEN ~last'.threw => x = last'.final
                       ELSE x \in Elems(sessionsStore)
      ]_vars

\* C23 witness: the reply to a message sent in session "1" has just arrived
\* while session "2" is shown: the stored session "1" ends with the reply and
\* session "2" has no message, in memory and in the store.
C23_Witness ==
    /\ last.op = "aiResolve"
    /\ ~last.faults
    /\ last.request.session.id = "1"
    /\ currentSessionId = "2"
    /\ CurrentSession.messages = <<>>
    /\ StoredSession("2").messages = <<>>
    /\ StoredSession("1") = last.final
    /\ Len(StoredSession("1").messages) = 2
    /\ \E i \in 1..Len(sessions) : sessions[i] = last.final

\* C24: saveSession commits as a single write. A call whose write fails leaves
\* the persisted collection exactly as it was before that call and its fault
\* reaches the caller, which does not call it again for that session: a model
\* change or a send whose first write fails leaves the store unchanged, issues
\* no AI request and throws; when a later write of the same handler fails, the
\* store holds exactly what the writes before it left; when the write of a
\* reply fails, the store holds only what the catch block then writes.
C24_FailedWriteLeavesStore ==
    [][ /\ (last'.op = "handleModelChange" /\ last'.threw) =>
               sessionsStore' = sessionsStore
        /\ (last'.op = "handleSend" /\ last'.threw /\ last'.final = last'.session) =>
               /\ sessionsStore' = sessionsStore
               /\ ~last'.called
               /\ pending' = pending
        /\ (last'.op = "handleSend" /\ last'.threw /\ last'.final # last'.session) =>
               sessionsStore' = saveSessionResult(sessionsStore, last'.session)
        /\ (last'.op = "aiReject" /\ last'.threw) =>
               sessionsStore' = sessionsStore
        /\ (last'.op = "aiResolve" /\ last'.faults) =>
               sessionsStore' = IF last'.threw THEN sessionsStore
                                ELSE saveSessionResult(sessionsStore, last'.final)
      ]_vars

\* C24 witness: the write of a model change has just failed: the stored session
\* keeps its model and its place while the session in memory has the new one.
C24_Witness ==
    /\ last.op = "handleModelChange"
    /\ last.threw
    /\ CurrentSession = last.session
    /\ StoredSession(last.session.id) # Null
    /\ StoredSession(last.session.id).modelId # last.session.modelId
    /\ Len(sessionsStore) = RetentionCap

\* the operations of the student's interface that read or write sessions
SessionOps ==
    {"studentLogin", "handleNewChat", "handleDeleteSession", "handleSend",
     "handleModelChange", "aiResolve", "aiReject"}

\* C26: the student's in-memory session list stays consistent with the store:
\* after every completed operation of the interface, while the student is logged
\* in, the set of ids in App's sessions state is the set of ids getSessions
\* returns for the student, and the list holds at most 20 sessions.
C26_MemoryMatchesStore ==
    (last.op \in SessionOps /\ user # Null /\ user.role = "STUDENT") =>
        /\ Ids(sessions) = Ids(getSessions(sessionsStore, user.id))
        /\ Len(sessions) <= RetentionCap

\* C27: a deleted session stays deleted: a session handleDeleteSession removed
\* from the store, unless a later new chat made a session of that id again, is
\* absent from the persisted collection in every later state, also after the
\* reply or the error of a request issued from it arrives.
C27_DeletedStaysDeleted ==
    \A id \in deletedIds : id \notin Ids(sessionsStore)

\* C28: a model change is never lost: when the reply of a request issued from
\* the session shown arrives and is saved, the persisted modelId of that session
\* is the model selected last in the chat area, also when the model was changed
\* while the reply was in flight.
C28_ModelChangeKept ==
    [][ (/\ last'.op = "aiResolve"
         /\ ~last'.faults
         /\ chat # Null
         /\ currentSessionId = last'.request.session.id
         /\ StoredIn(sessionsStore', last'.request.session.id) # Null) =>
            StoredIn(sessionsStore', last'.request.session.id).modelId = chat.selectedModel
      ]_vars

\* the suspended handleSend calls of the ChatArea that is mounted
Outstanding == {p \in pending : p.alive}

\* C30: in a chat area at most one AI request is outstanding and the loading
\* flag tracks it: a send is accepted only while isLoading is false; in every
\* state isLoading is true exactly when a request of the mounted ChatArea is in
\* flight, and there is at most one; and isLoading is false right after such a
\* request completes, whether the reply was saved, the AI call failed, or the
\* save of the reply (and of the error message) failed.
C30_LoadingTracksRequest ==
    [][ /\ Cardinality(Outstanding') <= 1
        /\ chat' = Null => Outstanding' = {}
        /\ chat' # Null => (chat'.isLoading <=> Outstanding' # {})
        /\ last'.op = "handleSend" => /\ chat # Null
                                      /\ ~chat.isLoading
                                      /\ Outstanding = {}
                                      /\ last'.called <=> chat'.isLoading
        /\ (last'.op \in {"aiResolve", "aiReject"} /\ last'.request.alive) =>
               /\ chat # Null
               /\ chat.isLoading
               /\ chat' # Null
               /\ ~chat'.isLoading
      ]_vars

\* C30 witness: the reply of the one outstanding request has arrived, the save
\* of the reply has failed and so has the save in the catch block: the handler
\* threw, and the chat area is no longer loading.
C30_Witness ==
    /\ last.op = "aiResolve"
    /\ last.request.alive
    /\ last.faults
    /\ last.threw
    /\ chat # Null
    /\ ~chat.isLoading
    /\ pending = {}

-----------------------------------------------------------------------------
(* Properties of one student id under two classrooms, checked under SpecClass *)

\* C29: a student logged in under classroom code X only sees and only writes
\* sessions created under X: every session of the in-memory list has classCode
\* X, and no operation of the student changes or removes a stored session of
\* another classroom, the eviction of the retention cap included.
C29_SessionsOfOwnClassroom ==
    [][ (user' # Null /\ user'.role = "STUDENT" /\ last'.op \in SessionOps) =>
            /\ \A i \in 1..Len(sessions') : sessions'[i].classCode = user'.classCode
            /\ \A x \in Elems(sessionsStore) :
                   x.classCode # user'.classCode => x \in Elems(sessionsStore')
      ]_vars

-----------------------------------------------------------------------------
(* Properties of two instances saving sessions, checked under SpecRace *)

UniqueIds(all) == \A i, j \in 1..Len(all) : all[i].id = all[j].id => i = j

\* C25: when the saveSession calls of two instances interleave, the last write
\* wins on the whole collection: the collection after a write is exactly what
\* its writer computed from its own read, so every session stored since that
\* read by the other instance and absent from the read is lost; and every
\* written collection has unique ids and at most 20 sessions of the saved
\* session's user.
C25_LastWriteWins ==
    [][ last'.op = "saveSessionWrite" =>
            /\ sessionsStore' = saveSessionResult(last'.read, last'.session)
            /\ \A x \in Elems(sessionsStore) :
                   x.id \notin Ids(last'.read) \cup {last'.session.id} =>
                       x.id \notin Ids(sessionsStore')
            /\ UniqueIds(sessionsStore')
            /\ CountOf(sessionsStore', last'.session.userId) <= RetentionCap
      ]_vars

\* C25 witness: the second writer has just written from a read that held 20
\* sessions, taken before the first writer stored its new session: that
\* session is lost and the saved session's user is at the cap.
C25_Witness ==
    /\ last.op = "saveSessionWrite"
    /\ last.lost # {}
    /\ Len(last.read) = RetentionCap
    /\ \A i \in Instances : reads[i] = Null
    /\ CountOf(sessionsStore, last.session.userId) = RetentionCap
    /\ UniqueIds(sessionsStore)

====
